---- MODULE Spec2Model ----
(***************************************************************************)
(* The SQLite -> PostgreSQL transfer script sqlite_to_postgres/load_data.py *)
(* as a state machine: one run opens both connections, loads the five      *)
(* tables batch by batch, commits once, verifies the five tables batch by  *)
(* batch and prints the success banner.                                    *)
(*                                                                         *)
(* Values.  An identifier is a 128-bit number; its text is the number      *)
(* written in lower-case hex, in upper-case hex, or not a UUID at all:     *)
(*   text        [n |-> 11, form |-> "lower" | "upper" | "garbage"]        *)
(*   UUID object [uuid |-> 11]                                             *)
(* A timestamp text is an instant written the way PostgreSQL prints it    *)
(* (canon) or some other way:  [t |-> 1, canon |-> TRUE | FALSE].          *)
(* Other column values are plain strings.  A raw row and a record are      *)
(* functions from column/field names to values, so a missing key is a      *)
(* name outside the DOMAIN.                                                *)
(***************************************************************************)
EXTENDS Integers, Sequences, FiniteSets, TLC

\* ---------------------------------------------------------------- bounds
\* rows fetched per fetchmany; the script uses 100 (load_data.py:31), the
\* model a small page so that full, partial and second batches all occur
BATCH_SIZE == 2
\* how many times the script is run over the same source
MaxRuns == 2

\* largest table: one full batch and one more row
MaxRows == BATCH_SIZE + 1

\* ---------------------------------------------------------------- tables
FW  == "film_work"
GN  == "genre"
GFW == "genre_film_work"
PN  == "person"
PFW == "person_film_work"

Tables == {FW, GN, GFW, PN, PFW}

\* load orders with a junction table ahead of a table it references
LoadOrderJunctionFirst == <<FW, GFW, GN, PN, PFW>>
LoadOrderPersonLast == <<FW, GN, GFW, PFW, PN>>

\* the order of the load_data_* calls of __main__
LoadOrder == <<FW, GN, GFW, PN, PFW>>

\* the order of the test_transfer_* calls of __main__
VerifyOrder == <<FW, GN, GFW, PN, PFW>>

\* dataclass fields, in declaration order (the order astuple uses)
FieldOrder(t) ==
  CASE t = FW  -> <<"id", "title", "description", "creation_date", "rating", "type">>
    [] t = GN  -> <<"id", "name", "description", "created_at", "updated_at">>
    [] t = GFW -> <<"id", "genre_id", "film_work_id", "created_at">>
    [] t = PN  -> <<"id", "full_name", "created_at", "updated_at">>
    [] t = PFW -> <<"id", "film_work_id", "person_id", "role", "created_at">>

Range(s) == {s[i] : i \in DOMAIN s}

Fields(t) == Range(FieldOrder(t))

\* ---------------------------------------------------------------- values
Txt(n, form) == [n |-> n, form |-> form]
Lower(n) == Txt(n, "lower")
Uuid(n) == [uuid |-> n]
Ts(t) == [t |-> t, canon |-> TRUE]

\* isinstance(v, str) for the value of an identifier field
IsStr(v) == "form" \in DOMAIN v

\* uuid.UUID(text): hex digits in either case parse, anything else raises
UUIDParses(v) == v.form \in {"lower", "upper"}
UUIDOf(v) == Uuid(v.n)

\* str(UUID) and PostgreSQL's uuid::text: lower-case hex
UuidText(u) == Lower(u.uuid)

\* the result of a function that returns nothing
None == [none |-> TRUE]

\* an int as the result of a function
IntValue(k) == [int |-> k]

Ok(r) == [ok |-> TRUE, val |-> r]
Raise(e) == [ok |-> FALSE, exc |-> e]

\* ---------------------------------------------------------------- records
Restrict(f, S) == [k \in (DOMAIN f) \cap S |-> f[k]]

\* __post_init__ / the tail of FilmWork.__init__: only `id` is converted
PostInit(rec) ==
  IF IsStr(rec["id"])
    THEN IF UUIDParses(rec["id"])
           THEN Ok([rec EXCEPT !["id"] = UUIDOf(rec["id"])])
           ELSE Raise("ValueError")
    ELSE Ok(rec)

\* FilmWork(**row): keeps the keys that are fields, ignores the others, and
\* reads self.id, which raises when no id was set
FilmWorkInit(row) ==
  LET attrs == Restrict(row, Fields(FW))
  IN  IF "id" \notin DOMAIN attrs THEN Raise("AttributeError") ELSE PostInit(attrs)

\* the generated __init__ of Genre, GenreFilmWork, Person, PersonFilmWork:
\* every field is a required keyword, no other keyword is accepted
DataclassInit(t, row) ==
  IF DOMAIN row # Fields(t) THEN Raise("TypeError") ELSE PostInit(row)

Construct(t, row) == IF t = FW THEN FilmWorkInit(row) ELSE DataclassInit(t, row)

\* Transform that leaves out the rows whose construction fails
TransformSkipsBad(t, batch) ==
  LET built == [i \in DOMAIN batch |-> Construct(t, batch[i])]
      good  == SelectSeq([i \in DOMAIN batch |-> i], LAMBDA i : built[i].ok)
  IN  Ok([k \in DOMAIN good |-> built[good[k]].val])

\* [Record(**dict(row)) for row in batch]: the first failing row raises
Transform(t, batch) ==
  LET built == [i \in DOMAIN batch |-> Construct(t, batch[i])]
      bad   == {i \in DOMAIN batch : ~built[i].ok}
  IN  IF bad = {}
        THEN Ok([i \in DOMAIN batch |-> built[i].val])
        ELSE Raise(built[CHOOSE i \in bad : \A j \in bad : i <= j].exc)

\* dataclasses.astuple(rec): reads every field, AttributeError when one is unset
AsTuple(t, rec) ==
  IF Fields(t) \subseteq DOMAIN rec
    THEN Ok([i \in DOMAIN FieldOrder(t) |-> rec[FieldOrder(t)[i]]])
    ELSE Raise("AttributeError")

\* ---------------------------------------------------------------- destination
\* the film_work column list with title and description swapped
InsertColsSwapped(t) ==
  CASE t = FW  -> <<"id", "description", "title", "creation_date", "rating", "type">>
    [] t = GN  -> <<"id", "name", "description", "created", "modified">>
    [] t = GFW -> <<"id", "genre_id", "film_work_id", "created">>
    [] t = PN  -> <<"id", "full_name", "created", "modified">>
    [] t = PFW -> <<"id", "film_work_id", "person_id", "role", "created">>

\* the column list of each INSERT statement, aligned with the astuple positions
InsertCols(t) ==
  CASE t = FW  -> <<"id", "title", "description", "creation_date", "rating", "type">>
    [] t = GN  -> <<"id", "name", "description", "created", "modified">>
    [] t = GFW -> <<"id", "genre_id", "film_work_id", "created">>
    [] t = PN  -> <<"id", "full_name", "created", "modified">>
    [] t = PFW -> <<"id", "film_work_id", "person_id", "role", "created">>

\* NOW() for the timestamp columns of every table
NowColsAll(t) ==
  IF t = FW THEN {"created", "modified"} ELSE Range(InsertCols(t)) \cap {"created", "modified"}

\* the columns the statement fills with NOW()
NowCols(t) == IF t = FW THEN {"created", "modified"} ELSE {}

UuidCols == {"id", "genre_id", "film_work_id", "person_id"}
TsCols == {"created", "modified"}

\* ForeignKey fields of the junction models: column -> referenced table
ForeignKeys(t) ==
  CASE t = GFW -> {<<"film_work_id", FW>>, <<"genre_id", GN>>}
    [] t = PFW -> {<<"film_work_id", FW>>, <<"person_id", PN>>}
    [] OTHER   -> {}

\* unique / unique_together of the models, besides the primary key
UniqueKeys(t) ==
  CASE t = GN  -> {{"name"}}
    [] t = GFW -> {{"film_work_id", "genre_id"}}
    [] t = PFW -> {{"film_work_id", "person_id", "role"}}
    [] OTHER   -> {}

\* the destination's input conversion of one bound parameter
PGValue(col, v) ==
  IF col \in UuidCols
    THEN IF IsStr(v)
           THEN IF UUIDParses(v) THEN Ok(UUIDOf(v)) ELSE Raise("DataError")
           ELSE Ok(v)
    ELSE IF col \in TsCols THEN Ok(v.t) ELSE Ok(v)

\* the row one INSERT statement builds from one parameter tuple
NewRow(t, tup, now) ==
  [c \in Range(InsertCols(t)) \cup NowCols(t) |->
     IF c \in NowCols(t) THEN now
     ELSE LET i == CHOOSE j \in DOMAIN InsertCols(t) : InsertCols(t)[j] = c
          IN  PGValue(c, tup[i]).val]

ParamsOk(t, tup) ==
  \A j \in DOMAIN InsertCols(t) : PGValue(InsertCols(t)[j], tup[j]).ok

\* ON CONFLICT (id): a row with this primary key is already there
Conflicts(t, row, db) == \E r \in db[t] : r["id"] = row["id"]

UniqueViolation(t, row, db) ==
  \E key \in UniqueKeys(t) : \E r \in db[t] : \A c \in key : r[c] = row[c]

ForeignKeyViolation(t, row, db) ==
  \E fk \in ForeignKeys(t) : ~\E r \in db[fk[2]] : r["id"] = row[fk[1]]

\* INSERT INTO t (...) VALUES (...) ON CONFLICT (id) DO NOTHING, one tuple
InsertOverwrites(t, tup, db, now) ==
  IF ~ParamsOk(t, tup) THEN Raise("DataError")
  ELSE LET row == NewRow(t, tup, now)
       IN  Ok([db |-> [db EXCEPT ![t] =
                         {r \in @ : r["id"] # row["id"]} \cup {row}],
               skipped |-> FALSE])
InsertOne(t, tup, db, now) ==
  IF ~ParamsOk(t, tup) THEN Raise("DataError")
  ELSE LET row == NewRow(t, tup, now)
       IN  IF Conflicts(t, row, db) THEN Ok([db |-> db, skipped |-> TRUE])
           ELSE IF UniqueViolation(t, row, db) THEN Raise("UniqueViolation")
           ELSE IF ForeignKeyViolation(t, row, db) THEN Raise("ForeignKeyViolation")
           ELSE Ok([db |-> [db EXCEPT ![t] = @ \cup {row}], skipped |-> FALSE])

\* cursor.executemany(query, tuples): the statement once per tuple, in order;
\* the result carries the positions whose insert did nothing
RECURSIVE ExecuteManyFrom(_, _, _, _, _, _)
ExecuteManyFrom(t, tuples, i, db, now, skipped) ==
  IF i > Len(tuples) THEN Ok([db |-> db, skipped |-> skipped])
  ELSE LET one == InsertOne(t, tuples[i], db, now)
       IN  IF ~one.ok THEN one
           ELSE ExecuteManyFrom(t, tuples, i + 1, one.val.db, now,
                                IF one.val.skipped THEN skipped \cup {i} ELSE skipped)

ExecuteMany(t, tuples, db, now) == ExecuteManyFrom(t, tuples, 1, db, now, {})

\* LoadBatch that empties the table before it inserts the batch
LoadBatchTruncates(t, recs, db, now) ==
  LET tuples == [i \in DOMAIN recs |-> AsTuple(t, recs[i])]
      bad    == {i \in DOMAIN recs : ~tuples[i].ok}
  IN  IF bad # {} THEN Raise("AttributeError")
      ELSE ExecuteMany(t, [i \in DOMAIN recs |-> tuples[i].val],
                       [db EXCEPT ![t] = {}], now)

\* the body of the loop of load_data_<t> for one batch of records
LoadBatch(t, recs, db, now) ==
  LET tuples == [i \in DOMAIN recs |-> AsTuple(t, recs[i])]
      bad    == {i \in DOMAIN recs : ~tuples[i].ok}
  IN  IF bad # {} THEN Raise("AttributeError")
      ELSE ExecuteMany(t, [i \in DOMAIN recs |-> tuples[i].val], db, now)

\* ---------------------------------------------------------------- extraction
\* cursor.fetchmany(BATCH_SIZE) after `pos` rows of the result were fetched
FetchManyOffByOne(rows, pos) ==
  SubSeq(rows, pos + 1, IF pos + BATCH_SIZE + 1 <= Len(rows)
                          THEN pos + BATCH_SIZE + 1 ELSE Len(rows))
FetchMany(rows, pos) ==
  SubSeq(rows, pos + 1, IF pos + BATCH_SIZE <= Len(rows)
                          THEN pos + BATCH_SIZE ELSE Len(rows))

\* ---------------------------------------------------------------- verification
\* the ORDER BY column of the source query of test_transfer_<t>_table ("" = none)
SrcOrderBy(t) == CASE t = FW -> "id" [] t = PN -> "created_at" [] OTHER -> ""

\* the ORDER BY column of its destination query ("" = none)
DstOrderBy(t) == CASE t = FW -> "id" [] t = PN -> "created" [] OTHER -> ""

\* SQLite compares the TEXT columns byte by byte: upper-case hex letters sort
\* before lower-case ones, timestamps of one format sort by instant
SrcSortKey(col, v) ==
  IF col = "id" THEN (IF v.form = "lower" THEN 1000 + v.n ELSE v.n) ELSE v.t

\* PostgreSQL compares uuid values as numbers and timestamps as instants
DstSortKey(col, v) == IF col = "id" THEN v.uuid ELSE v

\* every order of the rows S
Orders(S) ==
  {p \in [1..Cardinality(S) -> S] : \A i, j \in 1..Cardinality(S) : i # j => p[i] # p[j]}

\* the orders of the rows S that are sorted by key (a number per row), ties in
\* any order
SortedOrders(S, key) ==
  {p \in Orders(S) : \A i, j \in DOMAIN p : i < j => key[p[i]] <= key[p[j]]}

\* the result of the source query: SQLite scans a table in its stored order,
\* and sorts it when the query has an ORDER BY
SourceOrders(t, rows) ==
  IF SrcOrderBy(t) = "" THEN {rows}
  ELSE SortedOrders(Range(rows),
                    [r \in Range(rows) |-> SrcSortKey(SrcOrderBy(t), r[SrcOrderBy(t)])])

\* the result of the destination query over the rows S: sorted when the query
\* has an ORDER BY, in any order when it has none
DestinationOrders(t, S) ==
  IF DstOrderBy(t) = "" THEN Orders(S)
  ELSE SortedOrders(S, [r \in S |-> DstSortKey(DstOrderBy(t), r[DstOrderBy(t)])])

\* the select list of the destination query: what the dict_row cursor returns
SelectRow(t, r) ==
  CASE t = FW  -> [c \in Fields(FW) |-> r[c]]
    [] t = GN  -> [id |-> r["id"], name |-> r["name"], description |-> r["description"],
                   created_at |-> Ts(r["created"]), updated_at |-> Ts(r["modified"])]
    [] t = GFW -> [id |-> r["id"], genre_id |-> UuidText(r["genre_id"]),
                   film_work_id |-> UuidText(r["film_work_id"]),
                   created_at |-> Ts(r["created"])]
    [] t = PN  -> [id |-> r["id"], full_name |-> r["full_name"],
                   created_at |-> Ts(r["created"]), updated_at |-> Ts(r["modified"])]
    [] t = PFW -> [id |-> r["id"], film_work_id |-> UuidText(r["film_work_id"]),
                   person_id |-> UuidText(r["person_id"]), role |-> r["role"],
                   created_at |-> Ts(r["created"])]

\* the rows WHERE id = ANY(ids) selects
Matching(t, ids, db) == {r \in db[t] : r["id"] \in Range(ids)}

\* VerifyBatch without the second assert: only the lengths are compared
VerifyBatchCountsOnly(t, rows, found) ==
  LET original == Transform(t, rows)
      transferred == Transform(t, [i \in DOMAIN found |-> SelectRow(t, found[i])])
  IN  IF ~original.ok THEN original
      ELSE IF ~transferred.ok THEN transferred
      ELSE IF Len(original.val) # Len(transferred.val) THEN Raise("AssertionError")
      ELSE Ok(TRUE)

\* one iteration of the while loop of test_transfer_<t>_table: `rows` is the
\* source batch, `found` the destination rows in the order the query returned them
VerifyBatch(t, rows, found) ==
  LET original == Transform(t, rows)
      transferred == Transform(t, [i \in DOMAIN found |-> SelectRow(t, found[i])])
  IN  IF ~original.ok THEN original
      ELSE IF ~transferred.ok THEN transferred
      ELSE IF Len(original.val) # Len(transferred.val) THEN Raise("AssertionError")
      ELSE IF original.val # transferred.val THEN Raise("AssertionError")
      ELSE Ok(TRUE)

\* ---------------------------------------------------------------- inputs
Names == <<"n1", "n2", "n3", "n4", "n5", "n6">>

\* identifiers: films 11.., genres 21.., persons 31.., junction rows 41.., 51..
FilmRow(i) ==
  [id |-> Lower(10 + i), title |-> Names[i], description |-> "plot",
   creation_date |-> "NULL", rating |-> "7.5", type |-> "movie",
   created_at |-> Ts(i), updated_at |-> Ts(i)]

GenreRow(i) ==
  [id |-> Lower(20 + i), name |-> Names[i], description |-> "about",
   created_at |-> Ts(i), updated_at |-> Ts(i)]

PersonRow(i) ==
  [id |-> Lower(30 + i), full_name |-> Names[i],
   created_at |-> Ts(i), updated_at |-> Ts(i)]

GenreFilmWorkRow(j, ng) ==
  [id |-> Lower(40 + j), genre_id |-> Lower(20 + ((j - 1) % ng) + 1),
   film_work_id |-> Lower(10 + j), created_at |-> Ts(j)]

PersonFilmWorkRow(j, np) ==
  [id |-> Lower(50 + j), film_work_id |-> Lower(10 + j),
   person_id |-> Lower(30 + ((j - 1) % np) + 1), role |-> "actor",
   created_at |-> Ts(j)]

\* a well-formed source with cnt[t] rows in table t
CleanSource(cnt) ==
  [t \in Tables |->
     CASE t = FW  -> [i \in 1..cnt[FW] |-> FilmRow(i)]
       [] t = GN  -> [i \in 1..cnt[GN] |-> GenreRow(i)]
       [] t = PN  -> [i \in 1..cnt[PN] |-> PersonRow(i)]
       [] t = GFW -> [j \in 1..cnt[GFW] |-> GenreFilmWorkRow(j, cnt[GN])]
       [] t = PFW -> [j \in 1..cnt[PFW] |-> PersonFilmWorkRow(j, cnt[PN])]]

\* row counts of the well-formed sources: as many persons as genres, as many
\* rows in one junction table as in the other, a junction row per film at most
Counts ==
  {cnt \in [Tables -> 0..MaxRows] :
     /\ cnt[PN] = cnt[GN]
     /\ cnt[PFW] = cnt[GFW]
     /\ cnt[GFW] <= cnt[FW]
     /\ cnt[GFW] > 0 => cnt[GN] > 0}

FullSource == CleanSource([t \in Tables |-> MaxRows])

\* the other values one cell of a row may hold
Alternatives(t, col, v) ==
  (IF col \in UuidCols
     THEN {Txt(v.n, "upper"), Txt(v.n, "garbage")} ELSE {})
  \cup (IF \E fk \in ForeignKeys(t) : fk[1] = col THEN {Lower(99)} ELSE {})
  \cup (IF col \in {"created_at", "updated_at"}
          THEN {[t |-> v.t, canon |-> FALSE]} ELSE {})
  \cup (IF col \in {"name", "full_name", "title"} THEN {Names[1]} \ {v} ELSE {})

\* one row changed in one place: a column dropped, a column added, a cell changed
EditedRows(t, row) ==
  {[c \in (DOMAIN row) \ {col} |-> row[c]] : col \in DOMAIN row}
  \cup {[c \in (DOMAIN row) \cup {"file_path"} |->
           IF c = "file_path" THEN "path" ELSE row[c]]}
  \cup UNION {{[row EXCEPT ![col] = v] : v \in Alternatives(t, col, row[col])} :
                col \in DOMAIN row}

EditedTable(t, i) ==
  {[FullSource EXCEPT ![t][i] = row] : row \in EditedRows(t, FullSource[t][i])}

EditedSources == UNION {EditedTable(t, i) : t \in Tables, i \in 1..MaxRows}

CleanSources == {CleanSource(cnt) : cnt \in Counts}

Sources == CleanSources \cup EditedSources

\* rows the destination may hold before the first run
OldFilm ==
  [id |-> Uuid(11), title |-> "old title", description |-> "plot",
   creation_date |-> "NULL", rating |-> "7.5", type |-> "movie",
   created |-> 0, modified |-> 0]

OldGenre ==
  [id |-> Uuid(21), name |-> "old name", description |-> "about",
   created |-> 0, modified |-> 0]

OtherGenre ==
  [id |-> Uuid(29), name |-> "other", description |-> "about",
   created |-> 0, modified |-> 0]

OtherFilm ==
  [id |-> Uuid(19), title |-> "other", description |-> "plot",
   creation_date |-> "NULL", rating |-> "7.5", type |-> "movie",
   created |-> 0, modified |-> 0]

EmptyDb == [t \in Tables |-> {}]

\* empty; rows the source does not have; rows with primary keys of the source
Destinations ==
  {EmptyDb,
   [EmptyDb EXCEPT ![FW] = {OtherFilm}, ![GN] = {OtherGenre}],
   [EmptyDb EXCEPT ![FW] = {OldFilm}, ![GN] = {OldGenre, OtherGenre}]}

\* ---------------------------------------------------------------- state
VARIABLES
  src,          \* the SQLite database: table -> rows in cursor order
  committed,    \* the PostgreSQL database as committed: table -> set of rows
  db,           \* the PostgreSQL database as the run's open transaction sees it
  pc,           \* where the run is: start, connect, extract, transform, insert,
                \* commit, verify, finish, done, aborted
  ti,           \* index into LoadOrder / VerifyOrder of the table being processed
  cur,          \* result rows of the query the SQLite cursor last executed
  pos,          \* how many of them were fetched
  batch,        \* the batch in flight between extract, transform and insert
  open,         \* the connections and cursors that are open
  now,          \* NOW() of the run's transaction
  printed,      \* the success message was printed by this run
  exc,          \* the exception that ended the run ("" = none)
  run,          \* number of the run
  before,       \* history: the committed destination when the run started
  skippedRows,  \* history: <<table, row number>> of the source rows whose
                \* insert did nothing in this run
  log,          \* history: the steps of this run, in order: <<"open", resource>>,
                \* <<"load", t>>, <<"batch", t>>, <<"info", t>>, <<"loaded", t>>,
                \* <<"commit", "">>, <<"verify", t>>, <<"verified", t>>,
                \* <<"print", "">>, <<"raise", exception>>
  yielded,      \* history: table -> the batches extract_data yielded to the load
  loadedBefore, \* history: an earlier run committed its load of this source
  returned      \* history: table -> << >>, or <<v>> when load_data_<t> returned v

vars == <<src, committed, db, pc, ti, cur, pos, batch, open, now, printed, exc,
          run, before, skippedRows, log, yielded, loadedBefore, returned>>

Resources == {"sqlite_conn", "pg_conn", "sqlite_cur", "pg_write_cur", "pg_read_cur"}

Init ==
  /\ src \in Sources
  /\ committed \in (IF src \in CleanSources THEN Destinations ELSE {EmptyDb})
  /\ db = committed
  /\ before = committed
  /\ pc = "start"
  /\ ti = 1
  /\ cur = <<>>
  /\ pos = 0
  /\ batch = <<>>
  /\ open = {}
  /\ now = 100
  /\ printed = FALSE
  /\ exc = ""
  /\ run = 1
  /\ skippedRows = {}
  /\ log = <<>>
  /\ yielded = [t \in Tables |-> <<>>]
  /\ loadedBefore = FALSE
  /\ returned = [t \in Tables |-> <<>>]

\* Abort with sqlite3.connect used as a context manager without closing():
\* leaving the block ends the transaction and leaves the connection open
AbortWithoutClosing(e) ==
  /\ pc' = "aborted"
  /\ exc' = e
  /\ open' = open \cap {"sqlite_conn"}
  /\ db' = committed
  /\ batch' = <<>>
  /\ cur' = <<>>
  /\ log' = Append(log, <<"raise", e>>)
  /\ UNCHANGED <<src, committed, ti, pos, now, printed, run, before, skippedRows,
                 yielded, loadedBefore, returned>>

\* an exception leaves the with blocks: cursors and connections are closed, the
\* open transaction is discarded, the process ends
Abort(e) ==
  /\ pc' = "aborted"
  /\ exc' = e
  /\ open' = {}
  /\ db' = committed
  /\ batch' = <<>>
  /\ cur' = <<>>
  /\ log' = Append(log, <<"raise", e>>)
  /\ UNCHANGED <<src, committed, ti, pos, now, printed, run, before, skippedRows,
                 yielded, loadedBefore, returned>>

\* the first item of the outer with statement: sqlite3.connect
OpenSource ==
  /\ pc = "start"
  /\ open' = {"sqlite_conn"}
  /\ pc' = "connect"
  /\ log' = Append(log, <<"open", "sqlite_conn">>)
  /\ UNCHANGED <<src, committed, db, ti, cur, pos, batch, now, printed, exc, run,
                 before, skippedRows, yielded, loadedBefore, returned>>

\* sqlite3.connect raises: nothing was opened
OpenSourceFails ==
  /\ pc = "start"
  /\ Abort("OperationalError")

\* the second item of the outer with statement, psycopg.connect, and the three
\* cursors of the inner one
Connect ==
  /\ pc = "connect"
  /\ open' = Resources
  /\ pc' = "extract"
  /\ log' = Append(log, <<"open", "pg_conn">>)
  /\ UNCHANGED <<src, committed, db, ti, cur, pos, batch, now, printed, exc, run,
                 before, skippedRows, yielded, loadedBefore, returned>>

\* psycopg.connect raises: closing(sqlite_conn) closes the source
ConnectFails ==
  /\ pc = "connect"
  /\ Abort("OperationalError")

\* extract_data: the next fetchmany returns rows (the first one follows the SELECT)
ExtractBatch ==
  /\ pc = "extract"
  /\ LET t == LoadOrder[ti]
         rows == IF pos = 0 THEN src[t] ELSE cur
         results == FetchMany(rows, pos)
     IN  /\ results # <<>>
         /\ cur' = rows
         /\ batch' = results
         /\ pos' = pos + Len(results)
         /\ pc' = "transform"
         /\ log' = IF pos = 0 THEN Append(log, <<"load", t>>) ELSE log
         /\ yielded' = [yielded EXCEPT ![t] = Append(@, results)]
  /\ UNCHANGED <<src, committed, db, ti, open, now, printed, exc, run, before,
                 skippedRows, loadedBefore, returned>>

\* ExtractEnd with the commit one table early
ExtractEndCommitsEarly ==
  /\ pc = "extract"
  /\ LET t == LoadOrder[ti]
         rows == IF pos = 0 THEN src[t] ELSE cur
     IN  /\ FetchMany(rows, pos) = <<>>
         /\ log' = (IF pos = 0 THEN Append(log, <<"load", t>>) ELSE log)
                     \o <<<<"loaded", t>>>>
  /\ returned' = [returned EXCEPT ![LoadOrder[ti]] = <<None>>]
  /\ cur' = <<>>
  /\ pos' = 0
  /\ IF ti < Len(LoadOrder) - 1
       THEN ti' = ti + 1 /\ pc' = "extract"
       ELSE ti' = 1 /\ pc' = "commit"
  /\ UNCHANGED <<src, committed, db, batch, open, now, printed, exc, run, before,
                 skippedRows, yielded, loadedBefore>>

\* ExtractEnd with a load that returns the number of batches it inserted
ExtractEndReturnsCount ==
  /\ pc = "extract"
  /\ LET t == LoadOrder[ti]
         rows == IF pos = 0 THEN src[t] ELSE cur
     IN  /\ FetchMany(rows, pos) = <<>>
         /\ log' = (IF pos = 0 THEN Append(log, <<"load", t>>) ELSE log)
                     \o <<<<"loaded", t>>>>
  /\ returned' = [returned EXCEPT ![LoadOrder[ti]] = <<IntValue(Len(yielded[LoadOrder[ti]]))>>]
  /\ cur' = <<>>
  /\ pos' = 0
  /\ IF ti < Len(LoadOrder)
       THEN ti' = ti + 1 /\ pc' = "extract"
       ELSE ti' = 1 /\ pc' = "commit"
  /\ UNCHANGED <<src, committed, db, batch, open, now, printed, exc, run, before,
                 skippedRows, yielded, loadedBefore>>

\* extract_data: fetchmany returns no row, the generators end and load_data_<t>
\* returns; __main__ goes on with the next table or with the commit
ExtractEnd ==
  /\ pc = "extract"
  /\ LET t == LoadOrder[ti]
         rows == IF pos = 0 THEN src[t] ELSE cur
     IN  /\ FetchMany(rows, pos) = <<>>
         /\ log' = (IF pos = 0 THEN Append(log, <<"load", t>>) ELSE log)
                     \o <<<<"loaded", t>>>>
  /\ returned' = [returned EXCEPT ![LoadOrder[ti]] = <<None>>]
  /\ cur' = <<>>
  /\ pos' = 0
  /\ IF ti < Len(LoadOrder)
       THEN ti' = ti + 1 /\ pc' = "extract"
       ELSE ti' = 1 /\ pc' = "commit"
  /\ UNCHANGED <<src, committed, db, batch, open, now, printed, exc, run, before,
                 skippedRows, yielded, loadedBefore>>

\* the SELECT or a fetchmany raises: logged, re-raised
ExtractFails ==
  /\ pc = "extract"
  /\ Abort("OperationalError")

\* transform_data_<t>: the batch becomes a list of records, or construction raises
TransformBatch ==
  /\ pc = "transform"
  /\ LET r == Transform(LoadOrder[ti], batch)
     IN  IF r.ok
           THEN /\ batch' = r.val
                /\ pc' = "insert"
                /\ log' = Append(log, <<"batch", LoadOrder[ti]>>)
                /\ UNCHANGED <<src, committed, db, ti, cur, pos, open, now, printed,
                               exc, run, before, skippedRows, yielded,
                               loadedBefore, returned>>
           ELSE Abort(r.exc)

\* InsertBatch on a connection in autocommit mode
InsertBatchAutocommit ==
  /\ pc = "insert"
  /\ LET t == LoadOrder[ti]
         r == LoadBatch(t, batch, db, now)
     IN  IF r.ok
           THEN /\ db' = r.val.db
                /\ committed' = r.val.db
                /\ skippedRows' = skippedRows \cup
                     {<<t, pos - Len(batch) + i>> : i \in r.val.skipped}
                /\ batch' = <<>>
                /\ pc' = "extract"
                /\ log' = Append(log, <<"info", t>>)
                /\ UNCHANGED <<src, ti, cur, pos, open, now, printed, exc,
                               run, before, yielded, loadedBefore, returned>>
           ELSE Abort(r.exc)

\* load_data_<t>: astuple, executemany and logger.info of one batch
InsertBatch ==
  /\ pc = "insert"
  /\ LET t == LoadOrder[ti]
         r == LoadBatch(t, batch, db, now)
     IN  IF r.ok
           THEN /\ db' = r.val.db
                /\ skippedRows' = skippedRows \cup
                     {<<t, pos - Len(batch) + i>> : i \in r.val.skipped}
                /\ batch' = <<>>
                /\ pc' = "extract"
                /\ log' = Append(log, <<"info", t>>)
                /\ UNCHANGED <<src, committed, ti, cur, pos, open, now, printed, exc,
                               run, before, yielded, loadedBefore, returned>>
           ELSE Abort(r.exc)

\* executemany raises for a reason outside the data (connection lost, ...)
InsertFails ==
  /\ pc = "insert"
  /\ Abort("OperationalError")

\* pg_conn.commit()
Commit ==
  /\ pc = "commit"
  /\ committed' = db
  /\ pc' = "verify"
  /\ log' = Append(log, <<"commit", "">>)
  /\ UNCHANGED <<src, db, ti, cur, pos, batch, open, now, printed, exc, run, before,
                 skippedRows, yielded, loadedBefore, returned>>

CommitFails ==
  /\ pc = "commit"
  /\ Abort("OperationalError")

\* test_transfer_<t>_table: one iteration of the while loop (the first one
\* follows the source SELECT): the next source batch against the destination
\* rows with its ids
VerifyStep ==
  /\ pc = "verify"
  /\ LET t == VerifyOrder[ti]
     IN  \E rows \in IF pos = 0 THEN SourceOrders(t, src[t]) ELSE {cur} :
           LET results == FetchMany(rows, pos)
               original == Transform(t, results)
           IN  /\ results # <<>>
               /\ IF ~original.ok THEN Abort(original.exc)
                  ELSE \E found \in DestinationOrders(t,
                                      Matching(t, [i \in DOMAIN results |->
                                                     original.val[i]["id"]], db)) :
                         LET r == VerifyBatch(t, results, found)
                         IN  IF r.ok
                               THEN /\ cur' = rows
                                    /\ pos' = pos + Len(results)
                                    /\ log' = IF pos = 0
                                                THEN Append(log, <<"verify", t>>)
                                                ELSE log
                                    /\ UNCHANGED <<src, committed, db, pc, ti, batch,
                                                   open, now, printed, exc, run,
                                                   before, skippedRows, yielded,
                                                   loadedBefore, returned>>
                               ELSE Abort(r.exc)

\* VerifyEnd that leaves the last table unverified
VerifyEndSkipsLast ==
  /\ pc = "verify"
  /\ LET t == VerifyOrder[ti]
         rows == IF pos = 0 THEN src[t] ELSE cur
     IN  /\ FetchMany(rows, pos) = <<>>
         /\ log' = (IF pos = 0 THEN Append(log, <<"verify", t>>) ELSE log)
                     \o <<<<"verified", t>>>>
  /\ cur' = <<>>
  /\ pos' = 0
  /\ IF ti < Len(VerifyOrder) - 1
       THEN ti' = ti + 1 /\ pc' = "verify"
       ELSE ti' = 1 /\ pc' = "finish"
  /\ UNCHANGED <<src, committed, db, batch, open, now, printed, exc, run, before,
                 skippedRows, yielded, loadedBefore, returned>>

\* test_transfer_<t>_table: fetchmany returns no row, the function returns
VerifyEnd ==
  /\ pc = "verify"
  /\ LET t == VerifyOrder[ti]
         rows == IF pos = 0 THEN src[t] ELSE cur
     IN  /\ FetchMany(rows, pos) = <<>>
         /\ log' = (IF pos = 0 THEN Append(log, <<"verify", t>>) ELSE log)
                     \o <<<<"verified", t>>>>
  /\ cur' = <<>>
  /\ pos' = 0
  /\ IF ti < Len(VerifyOrder)
       THEN ti' = ti + 1 /\ pc' = "verify"
       ELSE ti' = 1 /\ pc' = "finish"
  /\ UNCHANGED <<src, committed, db, batch, open, now, printed, exc, run, before,
                 skippedRows, yielded, loadedBefore, returned>>

\* a query of the verification raises
VerifyFails ==
  /\ pc = "verify"
  /\ Abort("OperationalError")

\* the with blocks end, everything is closed, the message is printed
Finish ==
  /\ pc = "finish"
  /\ open' = {}
  /\ printed' = TRUE
  /\ pc' = "done"
  /\ log' = Append(log, <<"print", "">>)
  /\ UNCHANGED <<src, committed, db, ti, cur, pos, batch, now, exc, run, before,
                 skippedRows, yielded, loadedBefore, returned>>

\* the operator runs the script again over the same source
Rerun ==
  /\ pc \in {"done", "aborted"}
  /\ run < MaxRuns
  /\ run' = run + 1
  /\ now' = now + 1
  /\ pc' = "start"
  /\ ti' = 1
  /\ pos' = 0
  /\ cur' = <<>>
  /\ batch' = <<>>
  /\ db' = committed
  /\ before' = committed
  /\ printed' = FALSE
  /\ exc' = ""
  /\ skippedRows' = {}
  /\ log' = <<>>
  /\ yielded' = [t \in Tables |-> <<>>]
  /\ returned' = [t \in Tables |-> <<>>]
  /\ loadedBefore' = (loadedBefore \/ \E k \in DOMAIN log : log[k] = <<"commit", "">>)
  /\ UNCHANGED <<src, committed, open>>

Next ==
  \/ OpenSource
  \/ OpenSourceFails
  \/ Connect
  \/ ConnectFails
  \/ ExtractBatch
  \/ ExtractEnd
  \/ ExtractFails
  \/ TransformBatch
  \/ InsertBatch
  \/ InsertFails
  \/ Commit
  \/ CommitFails
  \/ VerifyStep
  \/ VerifyEnd
  \/ VerifyFails
  \/ Finish
  \/ Rerun

Spec == Init /\ [][Next]_vars

\* ---------------------------------------------------------------- properties
\* the step e is in the run's log / is in it before position k
Logged(e) == \E k \in DOMAIN log : log[k] = e
LoggedBefore(e, k) == \E j \in 1..(k - 1) : log[j] = e

CommitStep == <<"commit", "">>
PrintStep == <<"print", "">>
Raised == \E k \in DOMAIN log : log[k][1] = "raise"

\* the identifier a source row's column holds, parsed
Parsed(row, col) == UUIDOf(row[col])

\* C1: the commit comes after the loads of all five tables have returned, every
\* verification step comes after the commit, the message after the five
\* verifications; before the commit the committed destination is the one the
\* run found
C1_LoadCommitVerifyDone ==
  /\ \A k \in DOMAIN log :
       /\ log[k] = CommitStep =>
            \A t \in Tables : LoggedBefore(<<"loaded", t>>, k)
       /\ log[k][1] \in {"verify", "verified"} => LoggedBefore(CommitStep, k)
       /\ log[k][1] \in {"load", "loaded"} => ~LoggedBefore(CommitStep, k)
       /\ log[k] = PrintStep =>
            \A t \in Tables : LoggedBefore(<<"verified", t>>, k)
  /\ pc \in {"verify", "finish", "done"} => Logged(CommitStep)
  /\ pc \in {"start", "connect", "extract", "transform", "insert", "commit"}
       => ~Logged(CommitStep)
  /\ ~Logged(CommitStep) => committed = before
  /\ pc = "done" <=> Logged(PrintStep)

\* a run that loaded rows into all five tables, committed, verified and finished
C1_Witness ==
  /\ pc = "done"
  /\ \A t \in Tables : committed[t] # before[t]

\* C2: a run that ended on an exception before its commit committed nothing,
\* verified nothing, printed nothing, did nothing after the exception, and left
\* the committed destination as it found it
C2_LoadFailureCommitsNothing ==
  (pc = "aborted" /\ ~Logged(CommitStep)) =>
    /\ committed = before
    /\ db = before
    /\ ~printed
    /\ ~\E k \in DOMAIN log : log[k][1] \in {"verify", "verified", "print"}
    /\ log[Len(log)][1] = "raise"
    /\ \A k \in 1..(Len(log) - 1) : log[k][1] # "raise"

\* the load of a later table raised after two tables were loaded with rows
C2_Witness ==
  /\ pc = "aborted"
  /\ ~Logged(CommitStep)
  /\ Logged(<<"loaded", FW>>) /\ src[FW] # <<>> /\ before[FW] = {}
  /\ Logged(<<"loaded", GN>>) /\ src[GN] # <<>>
  /\ exc \in {"TypeError", "ValueError", "DataError", "ForeignKeyViolation"}

\* every source row of every table has its row in the committed destination
AllPersisted ==
  \A t \in Tables : \A i \in DOMAIN src[t] :
    \E r \in committed[t] : r["id"] = Parsed(src[t][i], "id")

\* C3: a run that ended on an exception after its commit keeps all five tables'
\* loaded rows committed, printed nothing and did nothing after the exception;
\* the message is printed only by a run that logged all five loads, the commit
\* and all five verifications and no exception
C3_VerifyFailureAfterCommit ==
  /\ (pc = "aborted" /\ Logged(CommitStep)) =>
       /\ AllPersisted
       /\ committed = db
       /\ ~printed
       /\ ~Logged(PrintStep)
       /\ log[Len(log)][1] = "raise"
       /\ \A k \in 1..(Len(log) - 1) : log[k][1] # "raise"
  /\ printed =>
       /\ \A t \in Tables : Logged(<<"loaded", t>>) /\ Logged(<<"verified", t>>)
       /\ Logged(CommitStep)
       /\ ~Raised
       /\ exc = ""

\* a verification assert failed with rows loaded by this run already committed,
\* with tables still unverified
C3_Witness ==
  /\ pc = "aborted"
  /\ exc = "AssertionError"
  /\ Logged(CommitStep)
  /\ committed[GN] # before[GN]
  /\ ~Logged(<<"verify", PFW>>)

\* C4: once a run has committed its load, a later run over the same source
\* never changes the destination (no row added, removed or changed) and its
\* load raises nothing the data causes
C4_Idempotent ==
  loadedBefore =>
    /\ db = before
    /\ committed = before
    /\ (pc = "aborted" /\ ~Logged(CommitStep)) => exc = "OperationalError"

\* a second run that loaded every table again and committed, all rows skipped
C4_Witness ==
  /\ loadedBefore
  /\ Logged(CommitStep)
  /\ \A t \in Tables : src[t] # <<>> /\ \A i \in DOMAIN src[t] : <<t, i>> \in skippedRows

\* the fields of a source row that are not timestamps
NonTimestampFields(t) == Fields(t) \ {"created_at", "updated_at"}

\* a source value and a destination value are equal, identifiers as parsed UUIDs
SameValue(col, sv, dv) ==
  IF col \in UuidCols THEN UUIDParses(sv) /\ UUIDOf(sv) = dv ELSE sv = dv

\* the destination holds source row i of table t: same primary key, equal fields
Transferred(t, i) ==
  \E d \in db[t] :
    /\ d["id"] = Parsed(src[t][i], "id")
    /\ \A c \in NonTimestampFields(t) : SameValue(c, src[t][i][c], d[c])

\* the rows the run inserted are in the destination it sees: its transaction
\* is open, or committed
Holding == pc # "aborted" \/ Logged(CommitStep)

\* C5 as claimed: once the load of a table has returned, every source row of it
\* has a destination row with its primary key and equal non-timestamp fields
\* (in the destination as the run sees it)
C5_RoundTripAsClaimed ==
  \A t \in Tables : (Holding /\ Logged(<<"loaded", t>>)) =>
    \A i \in DOMAIN src[t] : Transferred(t, i)

\* C5 amended: once the load of a table has returned, every source row of it
\* has a destination row with its primary key; the non-timestamp fields of that
\* row equal the source row's unless the insert found the primary key in the
\* destination and did nothing (in the destination as the run sees it)
C5_RoundTripUnlessSkipped ==
  \A t \in Tables : (Holding /\ Logged(<<"loaded", t>>)) =>
    \A i \in DOMAIN src[t] :
      /\ \E d \in db[t] : d["id"] = Parsed(src[t][i], "id")
      /\ <<t, i>> \notin skippedRows => Transferred(t, i)

\* film_work loaded into a destination that held one of its primary keys: one
\* row skipped, the others inserted
C5_Witness ==
  /\ Logged(<<"loaded", FW>>)
  /\ <<FW, 1>> \in skippedRows
  /\ <<FW, 2>> \notin skippedRows
  /\ Len(src[FW]) >= 2

\* C6 as claimed: the loads of film_work, genre and person have all returned
\* when the load of a junction table begins
C6_EntitiesBeforeJunctionsAsClaimed ==
  \A k \in DOMAIN log :
    log[k] \in {<<"load", GFW>>, <<"load", PFW>>} =>
      \A t \in {FW, GN, PN} : LoggedBefore(<<"loaded", t>>, k)

\* C6 amended: the load of a junction table begins after the loads of the two
\* tables it references have returned; the load of person begins after the
\* load of genre_film_work has returned
C6_ReferencedBeforeJunction ==
  \A k \in DOMAIN log :
    /\ \A t \in Tables : log[k] = <<"load", t>> =>
         \A fk \in ForeignKeys(t) : LoggedBefore(<<"loaded", fk[2]>>, k)
    /\ log[k] = <<"load", PN>> => LoggedBefore(<<"loaded", GFW>>, k)

\* both junction tables were loaded with rows
C6_Witness ==
  /\ Logged(<<"loaded", GFW>>) /\ src[GFW] # <<>>
  /\ Logged(<<"loaded", PFW>>) /\ src[PFW] # <<>>

\* every junction row of the source that names a UUID names a row of the source
SourceClosed ==
  \A t \in Tables : \A i \in DOMAIN src[t] : \A fk \in ForeignKeys(t) :
    (fk[1] \in DOMAIN src[t][i] /\ UUIDParses(src[t][i][fk[1]])) =>
      \E j \in DOMAIN src[fk[2]] :
        /\ "id" \in DOMAIN src[fk[2]][j]
        /\ UUIDParses(src[fk[2]][j]["id"])
        /\ src[fk[2]][j]["id"].n = src[t][i][fk[1]].n

References(d, t, row) ==
  \A fk \in ForeignKeys(t) : \E e \in d[fk[2]] : e["id"] = row[fk[1]]

\* C7: every junction row of the destination, in the open transaction and as
\* committed, references rows the destination holds; with a source whose
\* junction rows reference rows of the source no insert is rejected for a
\* foreign key; the load of a junction table returns only if every row of it
\* was skipped as present or references rows the destination holds, so a row
\* whose referenced row is absent fails the load
C7_ReferentialIntegrity ==
  /\ \A t \in Tables : \A r \in db[t] : References(db, t, r)
  /\ \A t \in Tables : \A r \in committed[t] : References(committed, t, r)
  /\ exc = "ForeignKeyViolation" => ~SourceClosed
  /\ \A t \in Tables : (Holding /\ Logged(<<"loaded", t>>)) =>
       \A i \in DOMAIN src[t] :
         \/ <<t, i>> \in skippedRows
         \/ \A fk \in ForeignKeys(t) :
              \E e \in db[fk[2]] : e["id"] = Parsed(src[t][i], fk[1])
  /\ (Logged(<<"loaded", GFW>>) /\ Logged(<<"loaded", PFW>>) /\ before = EmptyDb)
       => SourceClosed

\* a junction row that references no row was rejected and the load failed
C7_Witness ==
  /\ pc = "aborted"
  /\ exc = "ForeignKeyViolation"
  /\ ~SourceClosed
  /\ Logged(<<"load", PFW>>)
  /\ db[GFW] = {}

RECURSIVE Concat(_)
Concat(bs) == IF bs = <<>> THEN <<>> ELSE Head(bs) \o Concat(Tail(bs))

CeilDiv(n, d) == (n + d - 1) \div d

\* C8: the batches extract_data has yielded for a table are never empty, all
\* but the last hold BATCH_SIZE rows, the last at most BATCH_SIZE, and together
\* they are the first rows of the table in cursor order; when the load has
\* returned they are ceil(N / BATCH_SIZE) batches and together the whole table
C8_ExtractBatches ==
  \A t \in Tables :
    LET bs == yielded[t]
        N  == Len(src[t])
    IN  /\ \A k \in DOMAIN bs :
             /\ Len(bs[k]) >= 1
             /\ Len(bs[k]) <= BATCH_SIZE
             /\ k < Len(bs) => Len(bs[k]) = BATCH_SIZE
        /\ Len(Concat(bs)) <= N
        /\ Concat(bs) = SubSeq(src[t], 1, Len(Concat(bs)))
        /\ Logged(<<"loaded", t>>) =>
             /\ Len(bs) = CeilDiv(N, BATCH_SIZE)
             /\ Concat(bs) = src[t]

\* a table of BATCH_SIZE + 1 rows gave a full batch and a batch of one row, a
\* table of BATCH_SIZE rows one batch, a table of no row no batch
C8_Witness ==
  /\ Logged(<<"loaded", GN>>)
  /\ Len(src[FW]) = BATCH_SIZE + 1
  /\ Len(yielded[FW]) = 2 /\ Len(yielded[FW][2]) = 1
  /\ Len(src[GN]) = 0 /\ yielded[GN] = <<>>

\* a row without one of the record's fields, or with an identifier field whose
\* text is no UUID
Malformed(t, row) ==
  \/ ~(Fields(t) \subseteq DOMAIN row)
  \/ \E c \in UuidCols \cap Fields(t) \cap DOMAIN row : row[c].form = "garbage"

\* the raw rows of the batch in flight
RawBatch == SubSeq(cur, pos - Len(batch) + 1, pos)

\* C9 as claimed: a batch with a malformed row is never handed to the loader
C9_MalformedBatchNeverLoaded ==
  pc = "insert" => \A i \in DOMAIN RawBatch : ~Malformed(LoadOrder[ti], RawBatch[i])

\* the rows this run wrote into table t
Written(t) == db[t] \ before[t]

\* C10 as claimed: the timestamp columns of every row a run wrote hold NOW()
C10_AllStampedAsClaimed ==
  \A t \in Tables : \A r \in Written(t) :
    \A c \in TsCols \cap DOMAIN r : r[c] = now

\* C10 amended: the created and modified columns of the film_work rows a run
\* wrote hold NOW(); those of the genre and person rows hold the source row's
\* created_at and updated_at, and the created column of the junction rows the
\* source row's created_at
C10_StampedOrCopied ==
  /\ \A r \in Written(FW) : r["created"] = now /\ r["modified"] = now
  /\ \A t \in Tables \ {FW} : \A r \in Written(t) :
       \E i \in DOMAIN src[t] :
         /\ Parsed(src[t][i], "id") = r["id"]
         /\ r["created"] = src[t][i]["created_at"].t
         /\ "modified" \in DOMAIN r => r["modified"] = src[t][i]["updated_at"].t

\* a run wrote rows into all five tables
C10_Witness ==
  /\ pc = "commit"
  /\ \A t \in Tables : Written(t) # {}

\* the columns an INSERT fills from the record
CopiedCols(t) == Range(InsertCols(t)) \ NowCols(t)

\* the load accepts the source row: it is constructed, astuple reads it, the
\* destination converts its parameters
Loadable(t, row) ==
  /\ Construct(t, row).ok
  /\ AsTuple(t, Construct(t, row).val).ok
  /\ ParamsOk(t, AsTuple(t, Construct(t, row).val).val)

\* the destination row the INSERT of a source row builds
LoadedRow(t, row) == NewRow(t, AsTuple(t, Construct(t, row).val).val, now)

\* the destination table holds exactly the loaded rows of the source table
ExactlyLoaded(t) ==
  /\ \A i \in DOMAIN src[t] : Loadable(t, src[t][i])
  /\ {Restrict(r, CopiedCols(t)) : r \in db[t]}
       = {Restrict(LoadedRow(t, src[t][i]), CopiedCols(t)) : i \in DOMAIN src[t]}

\* C11 as claimed: the verification of a table whose destination holds exactly
\* the loaded source rows never fails an assert
C11_LoadedTableVerifies ==
  (pc = "aborted" /\ Logged(CommitStep) /\ exc = "AssertionError") =>
    ~ExactlyLoaded(VerifyOrder[ti])

\* the source rows of the table being loaded that were fetched so far
Fetched == SubSeq(src[LoadOrder[ti]], 1, pos)

\* C12 as claimed: record construction never rejects a row for its keys (with
\* TypeError) when the row carries every key the record declares
C12_UnknownKeysIgnored ==
  (pc = "aborted" /\ ~Logged(CommitStep) /\ exc = "TypeError") =>
    \E i \in DOMAIN Fetched : ~(Fields(LoadOrder[ti]) \subseteq DOMAIN Fetched[i])

\* C13 as claimed: in every record the transformer hands to the loader the
\* identifier fields are UUID values, never strings
C13_IdentifiersParsed ==
  pc = "insert" =>
    \A i \in DOMAIN batch : \A c \in UuidCols \cap DOMAIN batch[i] : ~IsStr(batch[i][c])

\* C14: a run that has ended, with the message or on an exception in any
\* phase, holds no open connection and no open cursor; before it ends it holds
\* what it has opened so far
C14_ClosedOnEveryExit ==
  /\ pc \in {"done", "aborted"} => open = {}
  /\ pc = "start" => open = {}
  /\ pc = "connect" => open = {"sqlite_conn"}
  /\ pc \in {"extract", "transform", "insert", "commit", "verify", "finish"}
       => open = Resources

\* the destination connection failed to open after the source was opened
C14_Witness ==
  /\ pc = "aborted"
  /\ Logged(<<"open", "sqlite_conn">>)
  /\ ~Logged(<<"open", "pg_conn">>)
  /\ open = {}

\* how many times the step e is in the run's log
CountLogged(e) == Cardinality({k \in DOMAIN log : log[k] = e})

\* C15: the batch the transformer hands to the loader has the length of the
\* batch extract_data yielded last and its i-th record is the record built
\* from the i-th raw row of that batch; for every table the transformer has
\* yielded as many batches as were extracted, less the one in flight, all of
\* them when the load has returned; a batch is extracted only when the loader
\* has finished with every batch extracted before
C15_BatchesPreserved ==
  /\ \A t \in Tables :
       LET ny == Len(yielded[t])
           nb == CountLogged(<<"batch", t>>)
           ni == CountLogged(<<"info", t>>)
       IN  /\ nb <= ny /\ ny <= nb + 1
           /\ ni <= nb /\ nb <= ni + 1
           /\ Logged(<<"loaded", t>>) => (nb = ny /\ ni = ny)
           /\ pc = "extract" => (nb = ny /\ ni = ny)
  /\ pc = "insert" =>
       LET t   == LoadOrder[ti]
           raw == yielded[t][Len(yielded[t])]
       IN  /\ CountLogged(<<"batch", t>>) = Len(yielded[t])
           /\ Len(batch) = Len(raw)
           /\ \A i \in DOMAIN raw : batch[i] = Construct(t, raw[i]).val

\* the second batch of a table, of one row, is with the loader after a first
\* batch of BATCH_SIZE rows went through
C15_Witness ==
  /\ pc = "insert"
  /\ ti = 3
  /\ Len(yielded[GFW]) = 2
  /\ Len(yielded[GFW][1]) = BATCH_SIZE
  /\ Len(batch) = 1
  /\ CountLogged(<<"info", GFW>>) = 1

\* C16 as claimed: the load of a table returns the number of batches it inserted
C16_ReturnsBatchCountAsClaimed ==
  \A t \in Tables :
    Logged(<<"loaded", t>>) => returned[t] = <<IntValue(Len(yielded[t]))>>

\* C16 amended: the load of a table returns nothing (None) and commits
\* nothing; when it has returned it has executed one batched insert and logged
\* one informational event per batch of the source, ceil(N / BATCH_SIZE) of
\* them, none for an empty table
C16_ReturnsNone ==
  \A t \in Tables :
    /\ ~Logged(<<"loaded", t>>) => returned[t] = <<>>
    /\ Logged(<<"loaded", t>>) =>
         /\ returned[t] = <<None>>
         /\ CountLogged(<<"info", t>>) = Len(yielded[t])
         /\ CountLogged(<<"info", t>>) = CeilDiv(Len(src[t]), BATCH_SIZE)
         /\ ~Logged(CommitStep) => committed = before

\* the load of a table of two batches and the load of an empty table returned
C16_Witness ==
  /\ returned[FW] = <<None>> /\ CountLogged(<<"info", FW>>) = 2
  /\ returned[GN] = <<None>> /\ src[GN] = <<>>
  /\ db[FW] # before[FW]

\* the destination column a record field is read from
DstCol(c) ==
  CASE c = "created_at" -> "created" [] c = "updated_at" -> "modified" [] OTHER -> c

\* the destination row d has the primary key of the source row and every field
\* the records compare is equal: id as a parsed UUID, the other identifiers as
\* lower-case text, the timestamps as the destination prints them
ComparedEqual(t, srow, d) ==
  /\ Fields(t) \subseteq DOMAIN srow
  /\ \A c \in Fields(t) :
       IF c = "id" THEN UUIDParses(srow[c]) /\ UUIDOf(srow[c]) = d[c]
       ELSE IF c \in UuidCols THEN srow[c] = UuidText(d[c])
       ELSE IF c \in {"created_at", "updated_at"} THEN srow[c] = Ts(d[DstCol(c)])
       ELSE srow[c] = d[c]

HasEqualRow(t, srow) == \E d \in db[t] : ComparedEqual(t, srow, d)

\* both queries of the table's verification sort, by keys that are distinct
\* and order the source rows the same way on both sides
KeyOrdered(t) ==
  LET c == SrcOrderBy(t)
      sk(i) == SrcSortKey(c, src[t][i][c])
      dk(i) == IF c = "id" THEN src[t][i][c].n ELSE src[t][i][c].t
  IN  /\ c # ""
      /\ DstOrderBy(t) # ""
      /\ \A i, j \in DOMAIN src[t] :
           i # j => (sk(i) # sk(j) /\ (sk(i) < sk(j) <=> dk(i) < dk(j)))

\* C17: when the verification of a table has returned, every source row of the
\* table has a destination row with its id and equal compared fields, and so
\* has every source row of the batches verified so far; when both queries
\* sort by agreeing keys, an assert fails only if some source row has no such
\* destination row (rows only the destination holds do not fail it)
C17_VerifierSound ==
  /\ \A t \in Tables : (Logged(CommitStep) /\ Logged(<<"verified", t>>)) =>
       \A i \in DOMAIN src[t] : HasEqualRow(t, src[t][i])
  /\ pc = "verify" =>
       \A i \in 1..pos : HasEqualRow(VerifyOrder[ti], cur[i])
  /\ (pc = "aborted" /\ Logged(CommitStep) /\ exc = "AssertionError"
        /\ KeyOrdered(VerifyOrder[ti])) =>
       \E i \in DOMAIN src[VerifyOrder[ti]] :
         ~HasEqualRow(VerifyOrder[ti], src[VerifyOrder[ti]][i])

\* the verification of film_work and of genre returned with rows in both
\* destination tables that the source does not have
C17_Witness ==
  /\ Logged(<<"verified", FW>>) /\ OtherFilm \in db[FW] /\ Len(src[FW]) > BATCH_SIZE
  /\ Logged(<<"verified", GN>>) /\ OtherGenre \in db[GN] /\ Len(src[GN]) >= 2

\* no two rows of a destination table have one primary key
PrimaryKeysUnique(d) ==
  \A t \in Tables : \A r1, r2 \in d[t] : r1["id"] = r2["id"] => r1 = r2

\* C18: no step of a run changes the source; every committed destination row
\* stays committed with all its field values; every load and verify step
\* keeps every row the run's transaction sees, with all its field values (only
\* the rollback of a failed run takes back the rows that run inserted), so the
\* set of primary keys only grows and a primary key never gets a second row; a
\* step of the verification phase leaves the destination as it is
C18_ExistingDataKept ==
  [][/\ src' = src
     /\ \A t \in Tables : committed[t] \subseteq committed'[t]
     /\ pc' # "aborted" => \A t \in Tables : db[t] \subseteq db'[t]
     /\ \A t \in Tables : before'[t] \subseteq db'[t]
     /\ PrimaryKeysUnique(db) => PrimaryKeysUnique(db')
     /\ pc = "verify" => (db' = db /\ committed' = committed)]_vars

\* a run committed after it skipped a source row whose primary key the
\* destination held, inserted the others and kept the rows it found
C18_Witness ==
  /\ Logged(CommitStep)
  /\ <<FW, 1>> \in skippedRows
  /\ OldFilm \in committed[FW]
  /\ OtherGenre \in committed[GN]
  /\ \A t \in Tables : before[t] \subseteq committed[t] /\ committed[t] # before[t]
====
